---------------------------- MODULE Spec2Model ----------------------------
(***************************************************************************)
(* A model of the NPP pipeline: the character-level lexer                  *)
(* (frontend/lexer/lexer.go), the recursive-descent parser                 *)
(* (frontend/parser/parser.go) and the tree-walking interpreter            *)
(* (core/interpreter/interpreter.go), driven as main does: lexer.New,      *)
(* parser.New, ParseProgram, Interpret.                                    *)
(*                                                                         *)
(* Text is a sequence of one-character strings (a Go string indexed by     *)
(* byte).  Go's 0-based index i is the TLA+ index i + 1.  The byte 0 that  *)
(* readChar uses for end of input is the value NUL.                        *)
(*                                                                         *)
(* int64 arithmetic is modelled on the integers: every source of the       *)
(* bounded input sets keeps all values far inside the 64-bit range, so no  *)
(* operation of a run wraps.                                               *)
(***************************************************************************)
EXTENDS Integers, Sequences, FiniteSets, TLC

VARIABLES
    input,      \* the source text handed to lexer.New
    items,      \* how the input was drawn (pool indices, operators): never read by the program
    pc,         \* position of the run: "parse", "interp", "done", ...
    p,          \* the Parser: its Lexer, curToken, peekToken
    program,    \* Program.Statements built so far by ParseProgram
    todo,       \* statements the interpreter still has to execute, innermost block first
    env,        \* Environment.store
    out,        \* standard output, one record per line
    toks,       \* tokens returned so far by NextToken (lexer runs)
    expr        \* result of parseExpression (expression runs)

vars == <<input, items, pc, p, program, todo, env, out, toks, expr>>

(***************************************************************************)
(* Lexer                                                                   *)
(***************************************************************************)
\* the byte 0: what readChar puts in l.ch at the end of the input, and also a
\* byte a source may hold, which the lexer cannot tell from the end
NUL == "NUL"

\* A character is one byte of the input.  A byte outside ASCII is written by
\* its hexadecimal name, "xB5" for the byte 0xB5.
\* The bytes 0x80..0xFF that unicode.IsLetter accepts when the byte is taken
\* as a rune (the letters of Latin-1).
Latin1Letters ==
    {"xAA", "xB5", "xBA",
     "xC0","xC1","xC2","xC3","xC4","xC5","xC6","xC7","xC8","xC9","xCA","xCB",
     "xCC","xCD","xCE","xCF","xD0","xD1","xD2","xD3","xD4","xD5","xD6",
     "xD8","xD9","xDA","xDB","xDC","xDD","xDE","xDF","xE0","xE1","xE2","xE3",
     "xE4","xE5","xE6","xE7","xE8","xE9","xEA","xEB","xEC","xED","xEE","xEF",
     "xF0","xF1","xF2","xF3","xF4","xF5","xF6",
     "xF8","xF9","xFA","xFB","xFC","xFD","xFE","xFF"}

Letters ==
    {"a","b","c","d","e","f","g","h","i","j","k","l","m",
     "n","o","p","q","r","s","t","u","v","w","x","y","z",
     "A","B","C","D","E","F","G","H","I","J","K","L","M",
     "N","O","P","Q","R","S","T","U","V","W","X","Y","Z"}
        \cup Latin1Letters

Digits == {"0","1","2","3","4","5","6","7","8","9"}

isLetter(ch) == ch \in Letters \/ ch = "_"

isDigit(ch) == ch \in Digits

HexDigits == <<"0","1","2","3","4","5","6","7","8","9","A","B","C","D","E","F">>

\* the name of the byte n, for n in 128..255
ByteName(n) == "x" \o HexDigits[(n \div 16) + 1] \o HexDigits[(n % 16) + 1]

HighBytes == {ByteName(n) : n \in 128..255}

ByteValue(ch) == CHOOSE n \in 128..255 : ByteName(n) = ch

\* string(ch) of a byte: the UTF-8 encoding of the code point ch, which is the
\* byte itself below 0x80 and the two bytes 0xC0 + ch / 64, 0x80 + ch % 64 from
\* 0x80 on
ByteToString(ch) ==
    IF ch \in HighBytes
    THEN <<ByteName(192 + (ByteValue(ch) \div 64)), ByteName(128 + (ByteValue(ch) % 64))>>
    ELSE <<ch>>

peekChar(l) ==
    IF l.readPosition >= Len(l.input) THEN NUL ELSE l.input[l.readPosition + 1]

\* readChar, with c the character it reads
advance(l, c) ==
    [l EXCEPT !.ch = c,
              !.position = l.readPosition,
              !.readPosition = l.readPosition + 1,
              !.line = IF c = "\n" THEN l.line + 1 ELSE l.line,
              !.column = IF c = "\n" THEN 1
                         ELSE IF c # NUL THEN l.column + 1
                         ELSE l.column]

readChar(l) == advance(l, peekChar(l))

LexerNew(src) ==
    readChar([input |-> src, position |-> 0, readPosition |-> 0,
              ch |-> NUL, line |-> 1, column |-> 1])

\* Token.Pos is the byte offset of the token's first character.  The Go Token
\* has no such field and nothing in the program reads it: it records which
\* part of the source a token, and a line written about it, belongs to.
newToken(tokenType, literal, line, column, pos) ==
    [Type |-> tokenType, Literal |-> literal, Line |-> line, Column |-> column,
     Pos |-> pos]

RECURSIVE skipWhitespace(_)
skipWhitespace(l) ==
    IF l.ch \in {" ", "\t", "\n", "\r"} THEN skipWhitespace(readChar(l)) ELSE l

RECURSIVE skipCommentLoop(_)
skipCommentLoop(l) ==
    IF l.ch # "\n" /\ l.ch # NUL THEN skipCommentLoop(readChar(l)) ELSE l

skipComment(l) ==
    IF l.ch = "/" /\ peekChar(l) = "/" THEN skipCommentLoop(l) ELSE l

RECURSIVE readIdentifierLoop(_)
readIdentifierLoop(l) ==
    IF isLetter(l.ch) \/ isDigit(l.ch) THEN readIdentifierLoop(readChar(l)) ELSE l

\* l.input[start:l.position], with the lexer as the reading loop left it
slice(start, l1) == [l |-> l1, lit |-> SubSeq(l1.input, start + 1, l1.position)]

readIdentifier(l) == slice(l.position, readIdentifierLoop(l))

RECURSIVE readNumberLoop(_)
readNumberLoop(l) ==
    IF isDigit(l.ch) THEN readNumberLoop(readChar(l)) ELSE l

readNumber(l) == slice(l.position, readNumberLoop(l))

RECURSIVE readStringLoop(_)
readStringLoop(l) ==
    IF l.ch # "\"" /\ l.ch # NUL THEN readStringLoop(readChar(l)) ELSE l

\* the end of readString: the closing quote is skipped unless the input ended
closeString(r) == IF r.l.ch = NUL THEN r ELSE [r EXCEPT !.l = readChar(r.l)]

readStringFrom(l1) == closeString(slice(l1.position, readStringLoop(l1)))

readString(l) == readStringFrom(readChar(l))      \* skip opening quote

lookupIdent(ident) ==
    CASE ident = <<"s","u","n">> -> "SUN"
      [] ident = <<"s","u","n","a">> -> "SUNA"
      [] ident = <<"a","g","a","r">> -> "AGAR"
      [] ident = <<"m","a","g","a","r">> -> "MAGAR"
      [] ident = <<"g","l","o","w">> -> "GLOW"
      [] ident = <<"f","h","e","k">> -> "FHEK"
      [] ident = <<"y","a","s">> -> "YAS"
      [] ident = <<"n","a","h">> -> "NAH"
      [] ident = <<"g","r","i","n","d">> -> "GRIND"
      [] OTHER -> "IDENT"

\* The cases of NextToken's switch that test peekChar for '=': the two-character
\* operator takes its Line and Column after the readChar, the one-character one
\* before it.
twoChar(l, l1, twoType) ==
    [l |-> readChar(l1),
     tok |-> newToken(twoType, ByteToString(l.ch) \o ByteToString(l1.ch), l1.line, l1.column, l.position)]

twoCharOrOne(l, twoType, oneType) ==
    IF peekChar(l) = "=" THEN twoChar(l, readChar(l), twoType)
    ELSE [l |-> readChar(l),
          tok |-> newToken(oneType, ByteToString(l.ch), l.line, l.column, l.position)]

oneChar(l, tokenType) ==
    [l |-> readChar(l),
     tok |-> newToken(tokenType, ByteToString(l.ch), l.line, l.column, l.position)]

\* the cases of NextToken that return without the final readChar: the token
\* takes its Line and Column after the literal has been read
stringToken(pos, r) ==
    [l |-> r.l, tok |-> newToken("STRING", r.lit, r.l.line, r.l.column, pos)]

wordToken(pos, r) ==
    [l |-> r.l, tok |-> newToken(lookupIdent(r.lit), r.lit, r.l.line, r.l.column, pos)]

numberToken(pos, r) ==
    [l |-> r.l, tok |-> newToken("INT", r.lit, r.l.line, r.l.column, pos)]

RECURSIVE NextToken(_)

\* the switch of NextToken, entered with white space and one comment skipped
scanToken(l) ==
    CASE l.ch = "=" -> twoCharOrOne(l, "==", "=")
      [] l.ch = "!" -> twoCharOrOne(l, "!=", "!")
      [] l.ch = "+" -> oneChar(l, "+")
      [] l.ch = "-" -> oneChar(l, "-")
      [] l.ch = "*" -> oneChar(l, "*")
      [] l.ch = "/" ->
            IF peekChar(l) = "/"
            THEN NextToken(skipComment(readChar(l)))
            ELSE oneChar(l, "/")
      [] l.ch = "<" -> twoCharOrOne(l, "<=", "<")
      [] l.ch = ">" -> twoCharOrOne(l, ">=", ">")
      [] l.ch \in {",", ";", "(", ")", "{", "}"} -> oneChar(l, l.ch)
      [] l.ch = "\"" -> stringToken(l.position, readString(l))
      [] l.ch = NUL ->
            [l |-> readChar(l),
             tok |-> newToken("EOF", <<>>, l.line, l.column, l.position)]
      [] OTHER ->
            IF isLetter(l.ch) THEN wordToken(l.position, readIdentifier(l))
            ELSE IF isDigit(l.ch) THEN numberToken(l.position, readNumber(l))
            ELSE oneChar(l, "ILLEGAL")

NextToken(l) == scanToken(skipComment(skipWhitespace(l)))

(***************************************************************************)
(* AST.  A node is a record whose field node names the Go type.  Nil is    *)
(* the nil interface value (and a nil pointer before it is stored in an    *)
(* interface); TypedNil(t) is the interface value a nil pointer of type t  *)
(* becomes when a function returning that pointer type is returned as a    *)
(* Statement: it compares unequal to nil.                                  *)
(***************************************************************************)
Nil == [node |-> "nil"]

TypedNil(t) == [node |-> t, isNil |-> TRUE]

IsNilPtr(s) == "isNil" \in DOMAIN s

PrintStatement(tok, value) ==
    [node |-> "PrintStatement", Tok |-> tok, Value |-> value]

AssignmentStatement(tok, name, value) ==
    [node |-> "AssignmentStatement", Tok |-> tok, Name |-> name, Value |-> value]

IfStatement(tok, condition, consequence, alternative) ==
    [node |-> "IfStatement", Tok |-> tok, Condition |-> condition,
     Consequence |-> consequence, Alternative |-> alternative]

BlockStatement(tok, statements) ==
    [node |-> "BlockStatement", Tok |-> tok, Statements |-> statements]

Identifier(tok, value) == [node |-> "Identifier", Token |-> tok, Value |-> value]

NumberLiteral(tok, value) == [node |-> "NumberLiteral", Token |-> tok, IntValue |-> value]

StringLiteral(tok, value) == [node |-> "StringLiteral", Token |-> tok, Value |-> value]

BinaryExpression(tok, left, operator, right) ==
    [node |-> "BinaryExpression", Token |-> tok, Left |-> left,
     Operator |-> operator, Right |-> right]

(***************************************************************************)
(* Standard output.  A line written by fmt.Println(value.String()) is a    *)
(* "print" record; a line written by one of the fmt.Printf("Error ...")    *)
(* calls is an "error" record holding the format (msg), the position       *)
(* printed, the token type printed (got) and the texts printed (args).     *)
(* Pos is the offset of the token the line is about (see newToken).        *)
(***************************************************************************)
errorLine(tok, msg, got, args) ==
    [kind |-> "error", msg |-> msg, Line |-> tok.Line, Column |-> tok.Column,
     got |-> got, args |-> args, Pos |-> tok.Pos]

printLine(tok, text) == [kind |-> "print", text |-> text, Pos |-> tok.Pos]

\* fmt.Printf("Error at line %d, col %d: <msg>, got %s", curToken.Line, curToken.Column, curToken.Type)
perr(ps, msg) ==
    [ps EXCEPT !.out = Append(@, errorLine(ps.curToken, msg, ps.curToken.Type, <<>>))]

\* the Printf calls that print a literal, or nothing, after the position
perrLit(ps, msg, args) ==
    [ps EXCEPT !.out = Append(@, errorLine(ps.curToken, msg, "", args))]

ParserMsgs ==
    {"Invalid statement", "Expected identifier after SUN", "Expected = after identifier",
     "Expected expression after =", "Expected expression after suna",
     "Expected condition after agar", "Expected { after condition",
     "Invalid block after agar", "Expected { after magar", "Invalid block after magar",
     "Expected } to close block", "Expected number after -", "Invalid number",
     "Expected expression after operator", "Expected number, string, or identifier"}

(***************************************************************************)
(* Parser.  A parser state ps is [l, curToken, peekToken, out]: the Parser *)
(* struct and the standard output written so far.  Every parse function    *)
(* returns the state it leaves together with its result.                   *)
(***************************************************************************)
\* main and the test both construct the parser with Debug = false
Debug == FALSE

zeroToken == [Type |-> "", Literal |-> <<>>, Line |-> 0, Column |-> 0, Pos |-> 0]

\* nextToken, with r what l.NextToken() returned
shift(ps, r) == [ps EXCEPT !.curToken = ps.peekToken, !.peekToken = r.tok, !.l = r.l]

nextToken(ps) == shift(ps, NextToken(ps.l))

ParserNew(l, stdout) ==
    nextToken(nextToken([l |-> l, curToken |-> zeroToken, peekToken |-> zeroToken,
                         out |-> stdout]))

LOWEST == 1
EQUALS == 2
LESSGREATER == 3
SUM == 4
PRODUCT == 5

precedences(tokenType) ==
    CASE tokenType \in {"==", "!="} -> EQUALS
      [] tokenType \in {"<", ">", "<=", ">="} -> LESSGREATER
      [] tokenType \in {"+", "-"} -> SUM
      [] tokenType \in {"*", "/"} -> PRODUCT
      [] OTHER -> 0

getPrecedence(tokenType) ==
    IF precedences(tokenType) # 0 THEN precedences(tokenType) ELSE LOWEST

getCurrentPrecedence(ps) == getPrecedence(ps.curToken.Type)

isOperator(tokenType) ==
    tokenType \in {"+", "-", "*", "/", "==", "!=", "<", ">", "<=", ">="}

\* strconv.ParseInt(literal, 10, 64) on a run of decimal digits
DigitSeq == <<"0","1","2","3","4","5","6","7","8","9">>

DigitVal(c) == (CHOOSE i \in 1..10 : DigitSeq[i] = c) - 1

MaxInt64Digits == <<"9","2","2","3","3","7","2","0","3","6","8","5","4","7","7","5","8","0","7">>

RECURSIVE StripZeros(_)
StripZeros(lit) ==
    IF Len(lit) > 1 /\ lit[1] = "0" THEN StripZeros(Tail(lit)) ELSE lit

RECURSIVE DigitsGreater(_, _)
DigitsGreater(a, b) ==
    IF a = <<>> THEN FALSE
    ELSE IF DigitVal(a[1]) # DigitVal(b[1]) THEN DigitVal(a[1]) > DigitVal(b[1])
    ELSE DigitsGreater(Tail(a), Tail(b))

\* err != nil: the value is out of the int64 range
outOfRange(s) ==
    \/ Len(s) > Len(MaxInt64Digits)
    \/ (Len(s) = Len(MaxInt64Digits) /\ DigitsGreater(s, MaxInt64Digits))

ParseIntErr(lit) == outOfRange(StripZeros(lit))

RECURSIVE ParseIntValue(_)
ParseIntValue(lit) ==
    IF lit = <<>> THEN 0
    ELSE 10 * ParseIntValue(SubSeq(lit, 1, Len(lit) - 1)) + DigitVal(lit[Len(lit)])

\* the result of a parse function: the parser state it leaves, and an
\* expression (e), a statement (stmt) or a block (block), Nil on failure
failExpr(ps) == [p |-> ps, e |-> Nil]

failStmt(ps) == [p |-> ps, stmt |-> Nil]

\* the INT case of parsePrimary and of the leading minus: tok is the token the
\* literal keeps, sign is 1 or -1
parseNumber(ps, tok, sign) ==
    IF ParseIntErr(ps.curToken.Literal)
    THEN failExpr(perrLit(ps, "Invalid number", <<ps.curToken.Literal>>))
    ELSE [p |-> nextToken(ps),
          e |-> NumberLiteral(tok, sign * ParseIntValue(ps.curToken.Literal))]

parsePrimary(ps) ==
    CASE ps.curToken.Type = "INT" -> parseNumber(ps, ps.curToken, 1)
      [] ps.curToken.Type = "STRING" ->
            [p |-> nextToken(ps), e |-> StringLiteral(ps.curToken, ps.curToken.Literal)]
      [] ps.curToken.Type = "IDENT" ->
            [p |-> nextToken(ps), e |-> Identifier(ps.curToken, ps.curToken.Literal)]
      [] OTHER -> failExpr(perr(ps, "Expected number, string, or identifier"))

\* parseExpression after a leading minus has been passed: p1 is on the next token
parseNegative(token, p1) ==
    IF p1.curToken.Type # "INT" THEN failExpr(perr(p1, "Expected number after -"))
    ELSE parseNumber(p1, token, -1)

\* the first part of parseExpression: a leading minus with its number, or a primary
parsePrefix(ps) ==
    IF ps.curToken.Type = "-" THEN parseNegative(ps.curToken, nextToken(ps))
    ELSE parsePrimary(ps)

\* a variant of the loop test that also climbs on equal precedence
climbs_or_equal(precedence, ps) == precedence <= getCurrentPrecedence(ps)

\* the loop test  precedence < p.getCurrentPrecedence()
climbs(precedence, ps) == precedence < getCurrentPrecedence(ps)

RECURSIVE parseExpression(_, _)
RECURSIVE parseExpressionLoop(_, _, _)

\* the loop body after the right operand r has been parsed
parseOperand(op, left, precedence, r) ==
    IF r.e = Nil
    THEN failExpr(perrLit(r.p, "Expected expression after operator", <<op.Literal>>))
    ELSE parseExpressionLoop(r.p, BinaryExpression(op, left, op.Literal, r.e), precedence)

parseExpressionLoop(ps, left, precedence) ==
    IF /\ ps.curToken.Type \notin {"EOF", ";", "}", "{"}
       /\ climbs(precedence, ps)
    THEN IF ~isOperator(ps.curToken.Type)
         THEN [p |-> ps, e |-> left]
         ELSE parseOperand(ps.curToken, left, precedence,
                           parseExpression(nextToken(ps), getPrecedence(ps.curToken.Type)))
    ELSE [p |-> ps, e |-> left]

\* parseExpression after its first part r
parseRest(r, precedence) ==
    IF r.e = Nil THEN r ELSE parseExpressionLoop(r.p, r.e, precedence)

parseExpression(ps, precedence) == parseRest(parsePrefix(ps), precedence)

\* the statement a function builds from the expression r it asked for, or the
\* failure it reports with msg at the token the parser stopped on
printOf(tok, r) ==
    IF r.e = Nil THEN failStmt(perr(r.p, "Expected expression after suna"))
    ELSE [p |-> r.p, stmt |-> PrintStatement(tok, r.e)]

\* returns *PrintStatement: Nil on failure
parsePrintStatement(ps) == printOf(ps.curToken, parseExpression(nextToken(ps), LOWEST))

\* a pointer returned through a Statement-typed return: nil becomes a typed nil
asStatement(t, r) ==
    IF r.stmt = Nil THEN [p |-> r.p, stmt |-> TypedNil(t)] ELSE r

assignmentOf(tok, name, r) ==
    IF r.e = Nil THEN failStmt(perr(r.p, "Expected expression after ="))
    ELSE [p |-> r.p, stmt |-> AssignmentStatement(tok, name, r.e)]

\* the SUN case after the identifier: p2 is on the token that follows it
parseAssignValue(tok, name, p2) ==
    IF p2.curToken.Type # "=" THEN failStmt(perr(p2, "Expected = after identifier"))
    ELSE assignmentOf(tok, name, parseExpression(nextToken(p2), LOWEST))

\* the SUN case after the keyword: p1 is on the token that follows it
parseAssignName(tok, p1) ==
    IF p1.curToken.Type # "IDENT" THEN failStmt(perr(p1, "Expected identifier after SUN"))
    ELSE parseAssignValue(tok, Identifier(p1.curToken, p1.curToken.Literal), nextToken(p1))

\* the SUN case of parseStatement: its failures return the nil interface
parseAssignment(ps) == parseAssignName(ps.curToken, nextToken(ps))

RECURSIVE skipSemicolons(_)
skipSemicolons(ps) ==
    IF ps.curToken.Type = ";" THEN skipSemicolons(nextToken(ps)) ELSE ps

\* a variant that leaves the parser on the token the failure was met on
resync_stay(ps) == ps

\* what ParseProgram and parseBlockStatement do when parseStatement returned nil
resync(ps) == nextToken(ps)

RECURSIVE parseStatement(_)
RECURSIVE parseIfStatement(_)
RECURSIVE parseBlockStatement(_)
RECURSIVE parseBlockLoop(_, _)

parseStatement(ps) ==
    CASE ps.curToken.Type = "SUN" -> parseAssignment(ps)
      [] ps.curToken.Type = "SUNA" -> asStatement("PrintStatement", parsePrintStatement(ps))
      [] ps.curToken.Type = "AGAR" -> asStatement("IfStatement", parseIfStatement(ps))
      [] OTHER -> failStmt(perr(ps, "Invalid statement"))

\* the loop body of parseBlockStatement after parseStatement returned r
blockAppend(r, statements) ==
    IF r.stmt # Nil
    THEN parseBlockLoop(skipSemicolons(r.p), Append(statements, r.stmt))
    ELSE parseBlockLoop(skipSemicolons(resync(r.p)), statements)

\* the loop of parseBlockStatement
parseBlockLoop(ps, statements) ==
    IF ps.curToken.Type # "}" /\ ps.curToken.Type # "EOF"
    THEN blockAppend(parseStatement(ps), statements)
    ELSE [p |-> ps, statements |-> statements]

blockOf(tok, r) ==
    IF r.p.curToken.Type # "}"
    THEN [p |-> perr(r.p, "Expected } to close block"), block |-> Nil]
    ELSE [p |-> r.p, block |-> BlockStatement(tok, r.statements)]

\* returns *BlockStatement: Nil on failure; curToken is left on the closing brace
parseBlockStatement(ps) == blockOf(ps.curToken, parseBlockLoop(nextToken(ps), <<>>))

ifElseOf(tok, condition, consequence, b) ==
    IF b.block = Nil THEN failStmt(perrLit(b.p, "Invalid block after magar", <<>>))
    ELSE [p |-> nextToken(b.p),      \* skip closing brace
          stmt |-> IfStatement(tok, condition, consequence, b.block)]

\* the magar case: p2 is on the token after magar
parseElseBlock(tok, condition, consequence, p2) ==
    IF p2.curToken.Type # "{" THEN failStmt(perr(p2, "Expected { after magar"))
    ELSE ifElseOf(tok, condition, consequence, parseBlockStatement(p2))

\* parseIfStatement after the Consequence, its closing brace and the semicolons
parseAlternative(tok, condition, consequence, p1) ==
    IF p1.curToken.Type = "MAGAR"
    THEN parseElseBlock(tok, condition, consequence, nextToken(p1))
    ELSE [p |-> p1, stmt |-> IfStatement(tok, condition, consequence, Nil)]

\* parseIfStatement after the block b of the Consequence
ifOf(tok, condition, b) ==
    IF b.block = Nil THEN failStmt(perrLit(b.p, "Invalid block after agar", <<>>))
    ELSE parseAlternative(tok, condition, b.block, skipSemicolons(nextToken(b.p)))

\* parseIfStatement after the condition c
parseConsequence(tok, c) ==
    IF c.e = Nil THEN failStmt(perr(c.p, "Expected condition after agar"))
    ELSE IF c.p.curToken.Type # "{" THEN failStmt(perr(c.p, "Expected { after condition"))
    ELSE ifOf(tok, c.e, parseBlockStatement(c.p))

\* returns *IfStatement: Nil on failure
parseIfStatement(ps) ==
    parseConsequence(ps.curToken, parseExpression(nextToken(ps), LOWEST))

\* the rest of an iteration of ParseProgram after parseStatement returned r
programAppend(r, statements) ==
    IF r.stmt # Nil
    THEN [p |-> skipSemicolons(r.p), statements |-> Append(statements, r.stmt)]
    ELSE [p |-> skipSemicolons(resync(perr(r.p, "Invalid statement"))),
          statements |-> statements]

debugLine(ps) ==
    IF Debug
    THEN [ps EXCEPT !.out = Append(@, [kind |-> "debug", Pos |-> ps.curToken.Pos])]
    ELSE ps

\* one iteration of the loop of ParseProgram
ParseProgramBody(ps, statements) ==
    programAppend(parseStatement(debugLine(ps)), statements)

RECURSIVE ParseProgramLoop(_, _)

ParseProgramNext(r) == ParseProgramLoop(r.p, r.statements)

\* the loop of ParseProgram, run to its end
ParseProgramLoop(ps, statements) ==
    IF ps.curToken.Type # "EOF" THEN ParseProgramNext(ParseProgramBody(ps, statements))
    ELSE [p |-> ps, statements |-> statements]

\* lexer.New, parser.New and ParseProgram on a source, as main calls them
\* (standard output empty at the start)
ParseProgram(src) == ParseProgramLoop(ParserNew(LexerNew(src), <<>>), <<>>)

(***************************************************************************)
(* Interpreter.  An Object is an IntObject or a StringObject; NilObject is *)
(* the nil an evaluation returns when it fails.  Fault is not an Object:   *)
(* it stands for the run-time panic of an integer % with a zero divisor,   *)
(* which ends the process.                                                 *)
(***************************************************************************)
IntObject(v) == [kind |-> "IntObject", IntValue |-> v]

StringObject(s) == [kind |-> "StringObject", Value |-> s]

NilObject == [kind |-> "nil"]

Fault == [kind |-> "panic"]

\* fmt.Sprintf("%d", v)
RECURSIVE Itoa(_)
Itoa(v) ==
    IF v < 0 THEN <<"-">> \o Itoa(0 - v)
    ELSE IF v < 10 THEN <<DigitSeq[v + 1]>>
    ELSE Itoa(v \div 10) \o <<DigitSeq[(v % 10) + 1]>>

\* a variant of Object.String() that quotes a text, as %q does
ObjectString_quoted(obj) ==
    IF obj.kind = "IntObject" THEN Itoa(obj.IntValue) ELSE <<"\"">> \o obj.Value \o <<"\"">>

\* Object.String()
ObjectString(obj) ==
    IF obj.kind = "IntObject" THEN Itoa(obj.IntValue) ELSE obj.Value

boolToInt(b) == IF b THEN 1 ELSE 0

\* a variant of isTruthy that takes only positive integers as true
isTruthy_positive(obj) ==
    CASE obj.kind = "IntObject" -> obj.IntValue > 0
      [] obj.kind = "StringObject" -> Len(obj.Value) > 0
      [] OTHER -> FALSE

isTruthy(obj) ==
    CASE obj.kind = "IntObject" -> obj.IntValue # 0
      [] obj.kind = "StringObject" -> Len(obj.Value) > 0
      [] OTHER -> FALSE

Abs(v) == IF v < 0 THEN 0 - v ELSE v

\* Go's / and % on integers truncate toward zero
Quot(a, b) ==
    IF (a < 0) = (b < 0) THEN Abs(a) \div Abs(b) ELSE 0 - (Abs(a) \div Abs(b))

Rem(a, b) == a - b * Quot(a, b)

\* the switch on op for two IntObjects; NilObject when no case matches
intBinary(token, a, op, b, stdout) ==
    CASE op = <<"+">> -> [val |-> IntObject(a + b), out |-> stdout]
      [] op = <<"-">> -> [val |-> IntObject(a - b), out |-> stdout]
      [] op = <<"*">> -> [val |-> IntObject(a * b), out |-> stdout]
      [] op = <<"%">> ->
            IF b = 0 THEN [val |-> Fault, out |-> stdout]
            ELSE [val |-> IntObject(Rem(a, b)), out |-> stdout]
      [] op = <<"/">> ->
            IF b = 0
            THEN [val |-> NilObject,
                  out |-> Append(stdout, errorLine(token, "Division by zero", "", <<>>))]
            ELSE [val |-> IntObject(Quot(a, b)), out |-> stdout]
      [] op = <<"=","=">> -> [val |-> IntObject(boolToInt(a = b)), out |-> stdout]
      [] op = <<"!","=">> -> [val |-> IntObject(boolToInt(a # b)), out |-> stdout]
      [] op = <<"<">> -> [val |-> IntObject(boolToInt(a < b)), out |-> stdout]
      [] op = <<">">> -> [val |-> IntObject(boolToInt(a > b)), out |-> stdout]
      [] op = <<"<","=">> -> [val |-> IntObject(boolToInt(a <= b)), out |-> stdout]
      [] op = <<">","=">> -> [val |-> IntObject(boolToInt(a >= b)), out |-> stdout]
      [] OTHER -> [val |-> NilObject, out |-> stdout]

invalidOperation(token, left, op, right, stdout) ==
    [val |-> NilObject,
     out |-> Append(stdout, errorLine(token, "Invalid operation", "",
                                      <<op, ObjectString(left), ObjectString(right)>>))]

evalBinaryExpression(token, left, op, right, stdout) ==
    IF left.kind = "IntObject" /\ right.kind = "IntObject"
    THEN LET r == intBinary(token, left.IntValue, op, right.IntValue, stdout)
         IN IF r.val = NilObject /\ r.out = stdout    \* no case of the switch matched
            THEN invalidOperation(token, left, op, right, stdout)
            ELSE r
    ELSE IF left.kind = "StringObject" /\ right.kind = "StringObject" /\ op = <<"+">>
    THEN [val |-> StringObject(left.Value \o right.Value), out |-> stdout]
    ELSE invalidOperation(token, left, op, right, stdout)

RECURSIVE evalExpression(_, _, _)
evalExpression(e, store, stdout) ==
    CASE e = Nil -> [val |-> NilObject, out |-> stdout]
      [] e.node = "NumberLiteral" -> [val |-> IntObject(e.IntValue), out |-> stdout]
      [] e.node = "StringLiteral" -> [val |-> StringObject(e.Value), out |-> stdout]
      [] e.node = "Identifier" ->
            IF e.Value \notin DOMAIN store
            THEN [val |-> NilObject,
                  out |-> Append(stdout, errorLine(e.Token, "Undefined variable", "",
                                                   <<e.Value>>))]
            ELSE [val |-> store[e.Value], out |-> stdout]
      [] e.node = "BinaryExpression" ->
            LET left == evalExpression(e.Left, store, stdout)
            IN IF left.val \in {NilObject, Fault} THEN left
               ELSE LET right == evalExpression(e.Right, store, left.out)
                    IN IF right.val \in {NilObject, Fault} THEN right
                       ELSE evalBinaryExpression(e.Token, left.val, e.Operator,
                                                 right.val, right.out)
      [] OTHER ->
            [val |-> NilObject,
             out |-> Append(stdout, [kind |-> "error", msg |-> "Unknown expression type",
                                     Line |-> -1, Column |-> -1, got |-> "",
                                     args |-> <<>>, Pos |-> -1])]

\* a variant of the store that keeps only the new binding
bind_fresh(store, name, value) == [n \in {name} |-> value]

\* i.env.store[name] = value
bind(store, name, value) ==
    [n \in (DOMAIN store) \cup {name} |-> IF n = name THEN value ELSE store[n]]

\* the statements a block hands to evalStatement, in order (nil entries are skipped)
blockStatements(block) == SelectSeq(block.Statements, LAMBDA s : s # Nil)

\* A state of the interpreter is [env, out, todo, fault]; each eval... below is
\* one activation of evalStatement on the first statement of todo, which it
\* removes; an if statement puts the statements of the block it chose in front.
finish(st, stdout) == [st EXCEPT !.out = stdout, !.todo = Tail(st.todo)]

\* a variant of failed that gives up the statements that follow
failed_abort(st, stdout, tok, msg) ==
    [st EXCEPT !.out = Append(stdout, errorLine(tok, msg, "", <<>>)), !.todo = <<>>]

\* the diagnostic of evalStatement for a statement it gives up, and its return
failed(st, stdout, tok, msg) ==
    [st EXCEPT !.out = Append(stdout, errorLine(tok, msg, "", <<>>)),
               !.todo = Tail(st.todo)]

\* a variant of enter that runs the block after the statements that follow
enter_deferred(st, stdout, block) ==
    [st EXCEPT !.out = stdout, !.todo = Tail(st.todo) \o blockStatements(block)]

\* the loop of evalStatement over the statements of the block it chose
enter(st, stdout, block) ==
    [st EXCEPT !.out = stdout, !.todo = blockStatements(block) \o Tail(st.todo)]

faulted(st, stdout) == [st EXCEPT !.out = stdout, !.todo = <<>>, !.fault = TRUE]

evalPrint(s, st) ==
    IF IsNilPtr(s) THEN finish(st, st.out)
    ELSE IF s.Value = Nil THEN failed(st, st.out, s.Tok, "Invalid print statement")
    ELSE LET value == evalExpression(s.Value, st.env, st.out)
         IN IF value.val = Fault THEN faulted(st, value.out)
            ELSE IF value.val # NilObject
            THEN finish(st, Append(value.out, printLine(s.Tok, ObjectString(value.val))))
            ELSE failed(st, value.out, s.Tok, "Invalid expression in print")

evalAssign(s, st) ==
    IF IsNilPtr(s) THEN finish(st, st.out)
    ELSE IF s.Name = Nil \/ s.Value = Nil
    THEN failed(st, st.out, s.Tok, "Invalid assignment statement")
    ELSE LET value == evalExpression(s.Value, st.env, st.out)
         IN IF value.val = Fault THEN faulted(st, value.out)
            ELSE IF value.val # NilObject
            THEN [finish(st, value.out) EXCEPT !.env = bind(st.env, s.Name.Value, value.val)]
            ELSE failed(st, value.out, s.Tok, "Invalid expression in assignment")

evalIf(s, st) ==
    IF IsNilPtr(s) THEN finish(st, st.out)
    ELSE IF s.Condition = Nil THEN failed(st, st.out, s.Tok, "Invalid if statement")
    ELSE IF s.Consequence = Nil THEN failed(st, st.out, s.Tok, "Invalid if block")
    ELSE LET condition == evalExpression(s.Condition, st.env, st.out)
         IN IF condition.val = Fault THEN faulted(st, condition.out)
            ELSE IF condition.val = NilObject
            THEN failed(st, condition.out, s.Tok, "Invalid condition in if")
            ELSE IF isTruthy(condition.val)
            THEN enter(st, condition.out, s.Consequence)
            ELSE IF s.Alternative # Nil /\ ~isTruthy(condition.val)
            THEN enter(st, condition.out, s.Alternative)
            ELSE finish(st, condition.out)

evalStatement(s, st) ==
    CASE s = Nil -> finish(st, st.out)
      [] s.node = "PrintStatement" -> evalPrint(s, st)
      [] s.node = "AssignmentStatement" -> evalAssign(s, st)
      [] s.node = "IfStatement" -> evalIf(s, st)
      [] OTHER ->
            finish(st, Append(st.out, [kind |-> "error", msg |-> "Unknown statement type",
                                       Line |-> -1, Column |-> -1, got |-> "",
                                       args |-> <<>>, Pos |-> -1]))

(***************************************************************************)
(* The String() methods of the AST nodes.                                  *)
(***************************************************************************)
\* strconv.Quote on one character.  Stated for printable ASCII and for the
\* escapes of newline, tab and carriage return only: the texts rendered here
\* come from the statements of Pool, which hold no other byte (a byte from
\* 0x80 on would need the UTF-8 decoding strconv.Quote does).
QuoteChar(c) ==
    CASE c = "\"" -> <<"\\", "\"">>
      [] c = "\\" -> <<"\\", "\\">>
      [] c = "\n" -> <<"\\", "n">>
      [] c = "\t" -> <<"\\", "t">>
      [] c = "\r" -> <<"\\", "r">>
      [] OTHER -> <<c>>

RECURSIVE QuoteChars(_)
QuoteChars(s) == IF s = <<>> THEN <<>> ELSE QuoteChar(Head(s)) \o QuoteChars(Tail(s))

\* fmt.Sprintf("%q", s)
Quote(s) == <<"\"">> \o QuoteChars(s) \o <<"\"">>

RECURSIVE NodeString(_)
NodeString(n) ==
    CASE n.node = "Identifier" -> n.Value
      [] n.node = "NumberLiteral" -> Itoa(n.IntValue)
      [] n.node = "StringLiteral" -> Quote(n.Value)
      [] n.node = "BinaryExpression" ->
            <<"(">> \o NodeString(n.Left) \o <<" ">> \o n.Operator \o <<" ">>
                  \o NodeString(n.Right) \o <<")">>
      [] n.node = "PrintStatement" -> <<"s","u","n","a"," ">> \o NodeString(n.Value)
      [] n.node = "AssignmentStatement" ->
            <<"s","u","n"," ">> \o NodeString(n.Name) \o <<" ","="," ">> \o NodeString(n.Value)
      [] n.node = "IfStatement" ->
            IF n.Alternative # Nil
            THEN <<"a","g","a","r"," ">> \o NodeString(n.Condition) \o <<" ","{"," ",".",".","."," ","}"," ","m","a","g","a","r"," ","{"," ",".",".","."," ","}">>
            ELSE <<"a","g","a","r"," ">> \o NodeString(n.Condition) \o <<" ","{"," ",".",".","."," ","}">>
      [] n.node = "BlockStatement" -> <<"{"," ",".",".","."," ","}">>

(***************************************************************************)
(* The run of main: lexer.New, parser.New, ParseProgram, Interpret.        *)
(* ParseStep is one iteration of the loop of ParseProgram, ParseReturn its *)
(* exit, handing Program.Statements to Interpret; EvalPrint, EvalAssign    *)
(* and EvalIf are one activation of evalStatement each; InterpretReturn is *)
(* the end of Interpret.                                                   *)
(***************************************************************************)
parserState(q, stdout) ==
    [l |-> q.l, curToken |-> q.curToken, peekToken |-> q.peekToken, out |-> stdout]

parserOf(ps) == [l |-> ps.l, curToken |-> ps.curToken, peekToken |-> ps.peekToken]

interpState == [env |-> env, out |-> out, todo |-> todo, fault |-> FALSE]

\* the state one iteration of ParseProgram leaves
Parsed(r) ==
    /\ p' = parserOf(r.p)
    /\ out' = r.p.out
    /\ program' = r.statements

ParseStep ==
    /\ pc = "parse"
    /\ p.curToken.Type # "EOF"
    /\ Parsed(ParseProgramBody(parserState(p, out), program))
    /\ UNCHANGED <<input, items, pc, todo, env, toks, expr>>

ParseReturn ==
    /\ pc = "parse"
    /\ p.curToken.Type = "EOF"
    /\ pc' = "interp"
    /\ todo' = SelectSeq(program, LAMBDA s : s # Nil)
    /\ UNCHANGED <<input, items, p, program, env, out, toks, expr>>

\* the state one activation of evalStatement leaves; a fault ends the process
Leave(r) ==
    /\ env' = r.env
    /\ out' = r.out
    /\ todo' = r.todo
    /\ pc' = IF r.fault THEN "fault" ELSE pc

EvalPrint ==
    /\ pc = "interp"
    /\ todo # <<>>
    /\ Head(todo).node = "PrintStatement"
    /\ Leave(evalStatement(Head(todo), interpState))
    /\ UNCHANGED <<input, items, p, program, toks, expr>>

EvalAssign ==
    /\ pc = "interp"
    /\ todo # <<>>
    /\ Head(todo).node = "AssignmentStatement"
    /\ Leave(evalStatement(Head(todo), interpState))
    /\ UNCHANGED <<input, items, p, program, toks, expr>>

EvalIf ==
    /\ pc = "interp"
    /\ todo # <<>>
    /\ Head(todo).node = "IfStatement"
    /\ Leave(evalStatement(Head(todo), interpState))
    /\ UNCHANGED <<input, items, p, program, toks, expr>>

InterpretReturn ==
    /\ pc = "interp"
    /\ todo = <<>>
    /\ pc' = "done"
    /\ UNCHANGED <<input, items, p, program, todo, env, out, toks, expr>>

(***************************************************************************)
(* Sources of the run.  A source is a concatenation of items of Pool: a    *)
(* statement with the white space after it, a malformed fragment, or a     *)
(* semicolon.  For a well-formed statement, shape is its syntax tree as    *)
(* the language reference gives it, without tokens.  Items 14 to 19 are    *)
(* the statements of the example program of the README; items 20 and 21  *)
(* are a malformed agar and an agar around a malformed statement.         *)
(***************************************************************************)
SNum(v) == [node |-> "NumberLiteral", IntValue |-> v]

SStr(s) == [node |-> "StringLiteral", Value |-> s]

SId(name) == [node |-> "Identifier", Value |-> name]

SBin(left, op, right) ==
    [node |-> "BinaryExpression", Left |-> left, Operator |-> op, Right |-> right]

SPrint(value) == [node |-> "PrintStatement", Value |-> value]

SAssign(name, value) ==
    [node |-> "AssignmentStatement", Name |-> SId(name), Value |-> value]

SBlock(statements) == [node |-> "BlockStatement", Statements |-> statements]

SIf(condition, consequence, alternative) ==
    [node |-> "IfStatement", Condition |-> condition,
     Consequence |-> consequence, Alternative |-> alternative]

Stmt(text, shape) == [text |-> text, class |-> "statement", shape |-> shape]

Malformed(text) == [text |-> text, class |-> "malformed", shape |-> Nil]

Semicolon(text) == [text |-> text, class |-> "semicolon", shape |-> Nil]

\* a well-formed agar around a block that holds a malformed statement
Partly(text, shape) == [text |-> text, class |-> "partly", shape |-> shape]

Pool ==
    << Stmt(<<"s","u","n"," ","x"," ","="," ","1","\n">>, SAssign(<<"x">>, SNum(1))),
       Stmt(<<"s","u","n"," ","x"," ","="," ","-","1","\n">>, SAssign(<<"x">>, SNum(-1))),
       Stmt(<<"s","u","n"," ","x"," ","="," ","\"","\"","\n">>, SAssign(<<"x">>, SStr(<<>>))),
       Stmt(<<"s","u","n"," ","x"," ","="," ","\"","a","\"","\n">>, SAssign(<<"x">>, SStr(<<"a">>))),
       Stmt(<<"s","u","n"," ","x"," ","="," ","x"," ","-"," ","1","\n">>, SAssign(<<"x">>, SBin(SId(<<"x">>), <<"-">>, SNum(1)))),
       Stmt(<<"s","u","n","a"," ","x","\n">>, SPrint(SId(<<"x">>))),
       Stmt(<<"s","u","n","a"," ","x"," ","/"," ","0","\n">>, SPrint(SBin(SId(<<"x">>), <<"/">>, SNum(0)))),
       Stmt(<<"a","g","a","r"," ","x"," ","{"," ","s","u","n","a"," ","\"","T","\""," ","}"," ","m","a","g","a","r"," ","{"," ","s","u","n","a"," ","\"","F","\""," ","}","\n">>,
            SIf(SId(<<"x">>), SBlock(<<SPrint(SStr(<<"T">>))>>),
                SBlock(<<SPrint(SStr(<<"F">>))>>))),
       Stmt(<<"a","g","a","r"," ","x"," ","{"," ","s","u","n"," ","x"," ","="," ","0"," ","s","u","n","a"," ","x"," ","}","\n">>,
            SIf(SId(<<"x">>),
                SBlock(<<SAssign(<<"x">>, SNum(0)), SPrint(SId(<<"x">>))>>), Nil)),
       Malformed(<<"s","u","n","\n">>),
       Malformed(<<"}","\n">>),
       Malformed(<<"s","u","n","a","\n">>),
       Semicolon(<<";">>),
       Stmt(<<"s","u","n"," ","n","u","m","b","e","r"," ","="," ","2",";","\n">>, SAssign(<<"n","u","m","b","e","r">>, SNum(2))),
       Stmt(<<"s","u","n","a"," ","n","u","m","b","e","r",";","\n">>, SPrint(SId(<<"n","u","m","b","e","r">>))),
       Stmt(<<"s","u","n"," ","a"," ","="," ","\"","h","e","l","l","o"," ","\"",";","\n">>, SAssign(<<"a">>, SStr(<<"h","e","l","l","o"," ">>))),
       Stmt(<<"s","u","n"," ","b"," ","="," ","\"","w","o","r","l","d","\"",";","\n">>, SAssign(<<"b">>, SStr(<<"w","o","r","l","d">>))),
       Stmt(<<"s","u","n","a"," ","a","+","b",";","\n">>, SPrint(SBin(SId(<<"a">>), <<"+">>, SId(<<"b">>)))),
       Stmt(<<"a","g","a","r"," ","n","u","m","b","e","r"," ",">","="," ","1","0"," ","{","\n"," "," "," "," ","s","u","n","a"," ","\"","n","i","c","e"," ","o","n","e"," ","b","a","b","y","!","\"",";","\n","}"," ","m","a","g","a","r","{","\n"," "," "," "," ","s","u","n","a"," ","\"","f","u","c","k"," ","o","f","f","!","\"",";","\n","}","\n">>,
            SIf(SBin(SId(<<"n","u","m","b","e","r">>), <<">","=">>, SNum(10)),
                SBlock(<<SPrint(SStr(<<"n","i","c","e"," ","o","n","e"," ","b","a","b","y","!">>))>>),
                SBlock(<<SPrint(SStr(<<"f","u","c","k"," ","o","f","f","!">>))>>))),
       Malformed(<<"a","g","a","r"," ","x","\n">>),
       Partly(<<"a","g","a","r"," ","x"," ","{"," ","s","u","n"," ","s","u","n","a"," ","x"," ","}","\n">>, SIf(SId(<<"x">>), SBlock(<<SPrint(SId(<<"x">>))>>), Nil)) >>

\* the items a drawn source is made of
GenItems == (1..13) \cup {20, 21}

\* main/hello.npp, as the README prints it
ExampleItems == <<14, 15, 16, 17, 18, 19>>

MaxStmts == 3

DrawnItemSeqs == UNION {[1..n -> GenItems] : n \in 0..MaxStmts}

RECURSIVE SourceOf(_)
SourceOf(its) ==
    IF its = <<>> THEN <<>> ELSE Pool[Head(its)].text \o SourceOf(Tail(its))

Init ==
    /\ (items = ExampleItems \/ items \in DrawnItemSeqs)
    /\ input = SourceOf(items)
    /\ pc = "parse"
    /\ p = parserOf(ParserNew(LexerNew(input), <<>>))
    /\ program = <<>>
    /\ todo = <<>>
    /\ env = <<>>
    /\ out = <<>>
    /\ toks = <<>>
    /\ expr = Nil

Next ==
    \/ ParseStep
    \/ ParseReturn
    \/ EvalPrint
    \/ EvalAssign
    \/ EvalIf
    \/ InterpretReturn

Spec == Init /\ [][Next]_vars

\* Some action can be taken: the guards of the actions cover every state in
\* which main has not returned.
Busy == pc \in {"parse", "interp"}

\* The process runs on until main returns: a step that can be taken is not put
\* off for ever.  The first conjunct is WF_vars(Next) with ENABLED <<Next>>_vars
\* written out as Busy.
FairSpec ==
    /\ Spec
    /\ ([]<>(~Busy) \/ []<><<Next>>_vars)
    /\ WF_vars(ParseReturn)
    /\ WF_vars(InterpretReturn)

(***************************************************************************)
(* parseExpression on its own.  A source is a chain of primaries joined by *)
(* binary operators drawn from Operators; ParseExpression is one call of   *)
(* parseExpression(LOWEST) by a parser that New has just built on it.      *)
(***************************************************************************)
Operators == <<<<"+">>, <<"-">>, <<"*">>, <<"/">>, <<"=","=">>, <<"!","=">>, <<"<">>, <<">">>, <<"<","=">>, <<">","=">>>>

MaxOps == 3

\* the primary at place k of a chain: an identifier, a number or a text
Operand(k) ==
    CASE k % 3 = 1 -> <<"a">>
      [] k % 3 = 2 -> <<"2">>
      [] OTHER -> <<"\"","s","\"">>

RECURSIVE ChainFrom(_, _)
ChainFrom(ops, k) ==
    IF ops = <<>> THEN Operand(k)
    ELSE Operand(k) \o <<" ">> \o Operators[Head(ops)] \o <<" ">> \o ChainFrom(Tail(ops), k + 1)

DrawnChains == UNION {[1..n -> DOMAIN Operators] : n \in 1..MaxOps}

InitExpr ==
    /\ items \in DrawnChains
    /\ input = ChainFrom(items, 1)
    /\ pc = "expr"
    /\ p = parserOf(ParserNew(LexerNew(input), <<>>))
    /\ program = <<>>
    /\ todo = <<>>
    /\ env = <<>>
    /\ out = <<>>
    /\ toks = <<>>
    /\ expr = Nil

\* the state a call of parseExpression leaves
ExpressionParsed(r) ==
    /\ p' = parserOf(r.p)
    /\ out' = r.p.out
    /\ expr' = r.e

ParseExpression ==
    /\ pc = "expr"
    /\ ExpressionParsed(parseExpression(parserState(p, out), LOWEST))
    /\ pc' = "parsed"
    /\ UNCHANGED <<input, items, program, todo, env, toks>>

NextExpr == ParseExpression

SpecExpr == InitExpr /\ [][NextExpr]_vars

(***************************************************************************)
(* NextToken on its own.  A source is any text over LexAlphabet of at most *)
(* MaxSrcLen characters; LexNextToken is one call of NextToken, and the    *)
(* caller stops at the first EOF token; LexAgain is a call after it.       *)
(***************************************************************************)
LexAlphabet == {"/", "\n", " ", "a", "1", "\"", "xB5", "xD7", NUL}

MaxSrcLen == 4

DrawnSources == UNION {[1..n -> LexAlphabet] : n \in 0..MaxSrcLen}

InitLex ==
    /\ input \in DrawnSources
    /\ items = <<>>
    /\ pc = "lex"
    /\ p = [l |-> LexerNew(input)]
    /\ program = <<>>
    /\ todo = <<>>
    /\ env = <<>>
    /\ out = <<>>
    /\ toks = <<>>
    /\ expr = Nil

\* the state a call of NextToken leaves
TokenRead(r) ==
    /\ p' = [l |-> r.l]
    /\ toks' = Append(toks, r.tok)

AtEOF == toks # <<>> /\ toks[Len(toks)].Type = "EOF"

LexNextToken ==
    /\ pc = "lex"
    /\ ~AtEOF
    /\ TokenRead(NextToken(p.l))
    /\ UNCHANGED <<input, items, pc, program, todo, env, out, expr>>

LexReturn ==
    /\ pc = "lex"
    /\ AtEOF
    /\ pc' = "lexed"
    /\ UNCHANGED <<input, items, p, program, todo, env, out, toks, expr>>

MaxAgain == 2

EOFCount == Cardinality({i \in 1..Len(toks) : toks[i].Type = "EOF"})

\* a caller that calls NextToken again after the first EOF token
LexAgain ==
    /\ pc \in {"lexed", "again"}
    /\ EOFCount <= MaxAgain
    /\ TokenRead(NextToken(p.l))
    /\ pc' = "again"
    /\ UNCHANGED <<input, items, program, todo, env, out, expr>>

NextLex == LexNextToken \/ LexReturn \/ LexAgain

SpecLex == InitLex /\ [][NextLex]_vars

(***************************************************************************)
(* evalBinaryExpression on its own.  A call takes an operator string and   *)
(* two Objects: integers of magnitude at most EvalRange, or texts.  expr   *)
(* holds the arguments of the call and, after it, the Object it returned.  *)
(***************************************************************************)
EvalRange == 2

OperatorStrings == {Operators[i] : i \in DOMAIN Operators} \cup {<<"%">>, <<"&">>}

Objects ==
    {IntObject(v) : v \in (0 - EvalRange)..EvalRange}
        \cup {StringObject(<<>>), StringObject(<<"a">>)}

InitEval ==
    /\ expr \in [Left : Objects, Operator : OperatorStrings, Right : Objects]
    /\ input = <<>>
    /\ items = <<>>
    /\ pc = "eval"
    /\ p = [l |-> LexerNew(<<>>)]
    /\ program = <<>>
    /\ todo = <<>>
    /\ env = <<>>
    /\ out = <<>>
    /\ toks = <<>>

\* the state a call of evalBinaryExpression leaves
Evaluated(r) ==
    /\ out' = r.out
    /\ expr' = [Left |-> expr.Left, Operator |-> expr.Operator, Right |-> expr.Right,
                Result |-> r.val]

EvalBinary ==
    /\ pc = "eval"
    /\ Evaluated(evalBinaryExpression(zeroToken, expr.Left, expr.Operator, expr.Right, out))
    /\ pc' = "evaluated"
    /\ UNCHANGED <<input, items, p, program, todo, env, toks>>

NextEval == EvalBinary

SpecEval == InitEval /\ [][NextEval]_vars

(***************************************************************************)
(* Vocabulary of the properties.                                           *)
(***************************************************************************)
\* a syntax tree without its tokens
RECURSIVE Shape(_)
Shape(n) ==
    CASE n = Nil -> Nil
      [] IsNilPtr(n) -> n
      [] n.node = "NumberLiteral" -> SNum(n.IntValue)
      [] n.node = "StringLiteral" -> SStr(n.Value)
      [] n.node = "Identifier" -> SId(n.Value)
      [] n.node = "BinaryExpression" -> SBin(Shape(n.Left), n.Operator, Shape(n.Right))
      [] n.node = "PrintStatement" -> SPrint(Shape(n.Value))
      [] n.node = "AssignmentStatement" -> SAssign(n.Name.Value, Shape(n.Value))
      [] n.node = "IfStatement" ->
            SIf(Shape(n.Condition), Shape(n.Consequence), Shape(n.Alternative))
      [] n.node = "BlockStatement" ->
            SBlock([i \in 1..Len(n.Statements) |-> Shape(n.Statements[i])])

Shapes(statements) == [i \in 1..Len(statements) |-> Shape(statements[i])]

\* the trees of the well-formed statements of the drawn source, in source order
RECURSIVE ExpectedShapes(_)
ExpectedShapes(its) ==
    IF its = <<>> THEN <<>>
    ELSE IF Pool[Head(its)].class \in {"statement", "partly"}
    THEN <<Pool[Head(its)].shape>> \o ExpectedShapes(Tail(its))
    ELSE ExpectedShapes(Tail(its))

OnlyStatements(its) == \A i \in 1..Len(its) : Pool[its[i]].class = "statement"

WithoutSemicolons(its) == SelectSeq(its, LAMBDA k : Pool[k].class # "semicolon")

\* ParseProgram has left its loop and not yet returned
ParseFinished == pc = "parse" /\ p.curToken.Type = "EOF"

IsError(line) == line.kind = "error"

IsPrint(line) == line.kind = "print"

IsParseLine(line) == IsError(line) /\ line.msg \in ParserMsgs

ErrorCount(stdout) == Cardinality({i \in 1..Len(stdout) : IsError(stdout[i])})

\* the lines a step has added to the standard output
Added == SubSeq(out', Len(out) + 1, Len(out'))

Appends == Len(out') >= Len(out) /\ SubSeq(out', 1, Len(out)) = out

\* the item of the drawn source (1, 2, ...) that holds the byte at offset pos;
\* an offset at or past the end of the source counts as after the last item
StmtOf(pos) ==
    Cardinality({k \in 1..Len(items) : Len(SourceOf(SubSeq(items, 1, k))) <= pos}) + 1

\* the interpreter is about to execute a statement of the given type (not a typed nil)
About(nodeType) ==
    /\ pc = "interp"
    /\ todo # <<>>
    /\ Head(todo).node = nodeType
    /\ ~IsNilPtr(Head(todo))

\* the value of the expression of the statement about to be executed
ValueNow(e) == evalExpression(e, env, out).val

\* the number a decimal numeral denotes: an optional minus sign, then digits
RECURSIVE DigitsValue(_)
DigitsValue(text) ==
    IF text = <<>> THEN 0
    ELSE 10 * DigitsValue(SubSeq(text, 1, Len(text) - 1))
         + (CHOOSE d \in 0..9 : DigitSeq[d + 1] = text[Len(text)])

IsDecimalOf(text, v) ==
    /\ text # <<>>
    /\ IF text[1] = "-"
       THEN /\ Len(text) > 1
            /\ \A i \in 2..Len(text) : text[i] \in Digits
            /\ (Len(text) > 2 => text[2] # "0")
            /\ v = 0 - DigitsValue(Tail(text))
       ELSE /\ \A i \in 1..Len(text) : text[i] \in Digits
            /\ (Len(text) > 1 => text[1] # "0")
            /\ v = DigitsValue(text)

\* the text form of a value: decimal for an integer, the text itself for a text
IsTextForm(text, obj) ==
    IF obj.kind = "IntObject" THEN IsDecimalOf(text, obj.IntValue) ELSE text = obj.Value

PrintedTexts == [i \in 1..Len(out) |-> IF IsPrint(out[i]) THEN out[i].text ELSE <<"?">>]

(***************************************************************************)
(* Properties of the run (specification Spec).                             *)
(***************************************************************************)

\* C1 (parse part): a source made only of well-formed statements is parsed
\* without any diagnostic into exactly the trees of those statements, and the
\* run of the example program ends with the three lines 2, hello world, fuck off!
C1_CleanParseAndExample ==
    /\ (ParseFinished /\ OnlyStatements(items))
           => (out = <<>> /\ Shapes(program) = ExpectedShapes(items))
    /\ (pc = "done" /\ items = ExampleItems)
           => PrintedTexts = <<<<"2">>, <<"h","e","l","l","o"," ","w","o","r","l","d">>, <<"f","u","c","k"," ","o","f","f","!">>>>

\* C1 (execution part): in a source made only of well-formed statements, a
\* statement whose expression evaluates successfully writes no diagnostic, a
\* suna writes exactly one line, the text form of the value, at the end of the
\* output, and a sun or an agar writes nothing
C1_CleanStep ==
    /\ (About("PrintStatement") /\ OnlyStatements(items)
            /\ ValueNow(Head(todo).Value) # NilObject)
           => /\ Appends
              /\ Len(Added) = 1
              /\ IsPrint(Added[1])
              /\ IsTextForm(Added[1].text, ValueNow(Head(todo).Value))
    /\ (About("AssignmentStatement") /\ OnlyStatements(items)
            /\ ValueNow(Head(todo).Value) # NilObject)
           => out' = out
    /\ (About("IfStatement") /\ OnlyStatements(items)
            /\ ValueNow(Head(todo).Condition) # NilObject)
           => out' = out

\* C1: a program of well-formed statements whose expressions evaluate writes one
\* line per executed suna, in execution order, in the value's text form, and no
\* diagnostic; the example program writes 2, hello world, fuck off!
C1_WellFormedRun == []C1_CleanParseAndExample /\ [][C1_CleanStep]_vars

\* C1 witness: the run of the example program has ended with its three lines
C1_Witness ==
    /\ pc = "done"
    /\ items = ExampleItems
    /\ Len(out) = 3
    /\ out[2].text = <<"h","e","l","l","o"," ","w","o","r","l","d">>

\* C2: the Program that ParseProgram returns holds exactly the well-formed
\* statements of the source, in source order
C2_ExactlyTheWellFormedStatements ==
    ParseFinished => Shapes(program) = ExpectedShapes(items)

\* C3: a suna whose expression fails to evaluate writes diagnostics only (at
\* least one, no output line), leaves the Environment as it was, and execution
\* goes on with the statement after it
C3_FailedPrintStep ==
    (About("PrintStatement") /\ ValueNow(Head(todo).Value) = NilObject)
        => /\ Appends
           /\ Len(Added) >= 1
           /\ \A i \in 1..Len(Added) : IsError(Added[i])
           /\ env' = env
           /\ todo' = Tail(todo)
           /\ pc' = "interp"

C3_FailedPrintContinues == [][C3_FailedPrintStep]_vars

\* C3 witness: a suna failed on a division by zero and a later statement has
\* written its line
C3_Witness ==
    \E i, j, k \in 1..Len(out) :
        /\ i < j /\ j < k
        /\ IsError(out[i]) /\ out[i].msg = "Division by zero"
        /\ IsError(out[j]) /\ out[j].msg = "Invalid expression in print"
        /\ IsPrint(out[k])

\* C4: sun name = expr binds name to the value of expr and leaves every other
\* binding as it was; when expr fails, the whole Environment is as it was
C4_AssignStep ==
    About("AssignmentStatement")
        => IF ValueNow(Head(todo).Value) # NilObject
           THEN /\ DOMAIN env' = (DOMAIN env) \cup {Head(todo).Name.Value}
                /\ env'[Head(todo).Name.Value] = ValueNow(Head(todo).Value)
                /\ \A n \in (DOMAIN env) \ {Head(todo).Name.Value} : env'[n] = env[n]
           ELSE env' = env

C4_AssignmentFrame == [][C4_AssignStep]_vars

\* C4 witness: x was bound, bound again to a text, and a failed sun of x has left
\* that binding in place beside no other change
C4_Witness ==
    /\ Len(items) = 3 /\ items[1] = 1 /\ items[2] = 4
    /\ \E i \in 1..Len(out) :
           IsError(out[i]) /\ out[i].msg = "Invalid expression in assignment"
    /\ DOMAIN env = {<<"x">>}
    /\ env[<<"x">>] = StringObject(<<"a">>)

\* the rule of the glossary: a nonzero integer or a nonempty text is true
Truthy(obj) ==
    \/ (obj.kind = "IntObject" /\ obj.IntValue # 0)
    \/ (obj.kind = "StringObject" /\ obj.Value # <<>>)

\* C5: an agar runs the statements of its Consequence, in order, when the
\* condition is true, of its Alternative when the condition is false and there is
\* one, and of no block otherwise (also when the condition fails to evaluate);
\* then execution goes on with the next statement
C5_IfStep ==
    About("IfStatement")
        => /\ env' = env
           /\ pc' = "interp"
           /\ todo' =
                IF ValueNow(Head(todo).Condition) = NilObject THEN Tail(todo)
                ELSE IF Truthy(ValueNow(Head(todo).Condition))
                THEN Head(todo).Consequence.Statements \o Tail(todo)
                ELSE IF Head(todo).Alternative # Nil
                THEN Head(todo).Alternative.Statements \o Tail(todo)
                ELSE Tail(todo)

C5_OneBlockOrNone == [][C5_IfStep]_vars

\* C5 witness: with x bound to a negative integer the Consequence has run
C5_Witness ==
    /\ pc = "done"
    /\ DOMAIN env = {<<"x">>}
    /\ env[<<"x">>] = IntObject(-1)
    /\ out # <<>>
    /\ IsPrint(out[Len(out)])
    /\ out[Len(out)].text = <<"T">>

\* one statement fails here: a suna or a sun whose expression does not evaluate,
\* or an iteration of ParseProgram on a token that starts no agar and yields no
\* well-formed statement
OneFailure ==
    \/ (About("PrintStatement") /\ ValueNow(Head(todo).Value) = NilObject)
    \/ (About("AssignmentStatement") /\ ValueNow(Head(todo).Value) = NilObject)
    \/ /\ pc = "parse"
       /\ p.curToken.Type \notin {"EOF", "AGAR"}
       /\ (program' = program \/ IsNilPtr(program'[Len(program')]))

\* C8: one failure produces exactly one diagnostic line
C8_OneDiagnosticPerFailure ==
    [][OneFailure => ErrorCount(out') = ErrorCount(out) + 1]_vars

\* C9 as claimed: every line caused by an earlier statement of the source comes
\* before every line caused by a later statement
C9_LinesInStatementOrder ==
    \A i, j \in 1..Len(out) :
        i < j => StmtOf(out[i].Pos) <= StmtOf(out[j].Pos)

\* C9 as amended: the diagnostics of ParseProgram come first, in the source order
\* of the tokens they report; the lines of Interpret follow, in the source order
\* of the statements that wrote them
C9_ParseLinesThenStatementOrder ==
    \A i, j \in 1..Len(out) :
        i < j =>
            /\ IsParseLine(out[j]) => IsParseLine(out[i])
            /\ (IsParseLine(out[i]) /\ IsParseLine(out[j])) => out[i].Pos <= out[j].Pos
            /\ (~IsParseLine(out[i]) /\ ~IsParseLine(out[j]))
                   => StmtOf(out[i].Pos) <= StmtOf(out[j].Pos)

\* C9 witness: a diagnostic of the parse about a later statement stands before
\* the lines of two earlier statements, which are in statement order
C9_Witness ==
    \E i, j, k \in 1..Len(out) :
        /\ i < j /\ j < k
        /\ IsParseLine(out[i]) /\ ~IsParseLine(out[j]) /\ ~IsParseLine(out[k])
        /\ StmtOf(out[j].Pos) < StmtOf(out[k].Pos)
        /\ StmtOf(out[k].Pos) < StmtOf(out[i].Pos)

\* the diagnostics of a parse: the format and the token type of each line
Diagnostics(stdout) == [i \in 1..Len(stdout) |-> <<stdout[i].msg, stdout[i].got>>]

\* C10: semicolons at statement boundaries are skipped without a diagnostic and
\* the Program is the one of the source with those semicolons removed
C10_SemicolonsChangeNothing ==
    ParseFinished =>
        /\ Shapes(program)
             = Shapes(ParseProgram(SourceOf(WithoutSemicolons(items))).statements)
        /\ Diagnostics(out)
             = Diagnostics(ParseProgram(SourceOf(WithoutSemicolons(items))).p.out)

\* binding strength as the language reference orders it: multiplicative over
\* additive over relational over equality
Tightness(op) ==
    CASE op \in {<<"*">>, <<"/">>} -> 4
      [] op \in {<<"+">>, <<"-">>} -> 3
      [] op \in {<<"<">>, <<">">>, <<"<","=">>, <<">","=">>} -> 2
      [] op \in {<<"=","=">>, <<"!","=">>} -> 1

OperandShape(k) ==
    CASE k % 3 = 1 -> SId(<<"a">>)
      [] k % 3 = 2 -> SNum(2)
      [] OTHER -> SStr(<<"s">>)

\* the operator applied last in ops[lo..hi]: the rightmost of the loosest ones
LastApplied(ops, lo, hi) ==
    CHOOSE k \in lo..hi :
        /\ \A j \in lo..hi : Tightness(Operators[ops[j]]) >= Tightness(Operators[ops[k]])
        /\ \A j \in (k + 1)..hi : Tightness(Operators[ops[j]]) > Tightness(Operators[ops[k]])

\* the tree of operands lo..hi+1 joined by ops[lo..hi], tighter operators
\* grouped first and equal ones left to right
RECURSIVE Grouped(_, _, _)
GroupedAt(ops, lo, hi, k) ==
    SBin(Grouped(ops, lo, k - 1), Operators[ops[k]], Grouped(ops, k + 1, hi))

Grouped(ops, lo, hi) ==
    IF lo > hi THEN OperandShape(lo)
    ELSE GroupedAt(ops, lo, hi, LastApplied(ops, lo, hi))

\* C6: parseExpression builds, without a diagnostic, the tree in which
\* multiplicative binds tighter than additive, additive than relational,
\* relational than equality, and equal precedence groups left to right
C6_PrecedenceAndLeftAssociation ==
    pc = "parsed" => (out = <<>> /\ Shape(expr) = Grouped(items, 1, Len(items)))

\* C6 witness: a - 2 * "s" - a has been parsed as (a - (2 * "s")) - a
C6_Witness ==
    /\ pc = "parsed"
    /\ items = <<2, 3, 2>>
    /\ expr.Operator = <<"-">>
    /\ expr.Left.node = "BinaryExpression"
    /\ expr.Left.Operator = <<"-">>
    /\ expr.Left.Right.node = "BinaryExpression"
    /\ expr.Left.Right.Operator = <<"*">>
    /\ expr.Right.node = "Identifier"

\* a source without its comments: outside a text literal, // and what follows
\* it up to the end of the line are dropped
RECURSIVE StripComments(_, _, _)
StripComments(src, inText, inComment) ==
    IF src = <<>> THEN <<>>
    ELSE IF inComment
    THEN IF Head(src) = "\n" THEN <<"\n">> \o StripComments(Tail(src), FALSE, FALSE)
         ELSE StripComments(Tail(src), FALSE, TRUE)
    ELSE IF inText
    THEN <<Head(src)>> \o StripComments(Tail(src), Head(src) # "\"", FALSE)
    ELSE IF Head(src) = "/" /\ Len(src) >= 2 /\ src[2] = "/"
    THEN StripComments(Tail(src), FALSE, TRUE)
    ELSE <<Head(src)>> \o StripComments(Tail(src), Head(src) = "\"", FALSE)

\* the tokens NextToken returns on a source, up to the first EOF
RECURSIVE TokensFrom(_)
TokensAfter(r) ==
    IF r.tok.Type = "EOF" THEN <<r.tok>> ELSE <<r.tok>> \o TokensFrom(r.l)

TokensFrom(l) == TokensAfter(NextToken(l))

Lexemes(tokens) == [i \in 1..Len(tokens) |-> <<tokens[i].Type, tokens[i].Literal>>]

Whitespace == {<<" ">>, <<"\t">>, <<"\n">>, <<"\r">>}

\* C7: NextToken returns no token for whitespace or comment text, and the
\* tokens of a source are the tokens of the source with its comments removed
C7_CommentsAndWhitespaceAreSkipped ==
    pc = "lexed" =>
        /\ \A i \in 1..Len(toks) :
               toks[i].Type # "STRING" => toks[i].Literal \notin Whitespace
        /\ Lexemes(toks) = Lexemes(TokensFrom(LexerNew(StripComments(input, FALSE, FALSE))))

\* the 1-based line of the character at byte offset pos of src
LineAt(src, pos) == 1 + Cardinality({k \in 1..pos : src[k] = "\n"})

\* the 1-based column of the character at byte offset pos of src: its distance
\* from the last newline before it, or from the start of src
ColumnAt(src, pos) ==
    (pos + 1) - (IF \E k \in 1..pos : src[k] = "\n"
                 THEN CHOOSE k \in 1..pos :
                          src[k] = "\n" /\ \A j \in (k + 1)..pos : src[j] # "\n"
                 ELSE 0)

\* C11: every token NextToken returns (one-character token, two-character
\* operator, identifier, keyword, integer, text) carries the 1-based line and
\* column of its first character
C11_TokensCarryFirstCharacterPosition ==
    \A i \in 1..Len(toks) :
        toks[i].Type # "EOF" =>
            /\ toks[i].Line = LineAt(input, toks[i].Pos)
            /\ toks[i].Column = ColumnAt(input, toks[i].Pos)

\* C12: a call of NextToken returns exactly one token and moves the read
\* position forward or not at all; once it has returned an EOF token, every
\* later call returns an EOF token again and writes nothing
C12_CallStep ==
    (toks' # toks) =>
        /\ Len(toks') = Len(toks) + 1
        /\ SubSeq(toks', 1, Len(toks)) = toks
        /\ p'.l.position >= p.l.position
        /\ p'.l.readPosition >= p.l.readPosition
        /\ AtEOF => (toks'[Len(toks')].Type = "EOF" /\ out' = out)

C12_OneTokenForwardAndEOFStays == [][C12_CallStep]_vars

\* the number of statements in a list, those inside the blocks of an agar included
RECURSIVE Weight(_)
StatementWeight(s) ==
    IF IsNilPtr(s) \/ s.node # "IfStatement" THEN 1
    ELSE 1 + Weight(s.Consequence.Statements)
           + (IF s.Alternative = Nil THEN 0 ELSE Weight(s.Alternative.Statements))

Weight(statements) ==
    IF statements = <<>> THEN 0
    ELSE StatementWeight(Head(statements)) + Weight(Tail(statements))

\* an iteration of ParseProgram moves the current token forward in the source, and
\* an activation of evalStatement leaves fewer statements to execute; none faults
C13_Progress ==
    /\ (pc = "parse" /\ pc' = "parse") => p'.curToken.Pos > p.curToken.Pos
    /\ (pc = "interp" /\ pc' = "interp") => Weight(todo') < Weight(todo)
    /\ pc' # "fault"

\* in a state where main has not returned, the guard of some action holds
SomeGuardHolds ==
    \/ pc = "parse"
    \/ (pc = "interp" /\ todo = <<>>)
    \/ (pc = "interp" /\ todo # <<>>
          /\ Head(todo).node \in {"PrintStatement", "AssignmentStatement", "IfStatement"})

\* C13: on every source the run terminates normally: ParseProgram reaches the end
\* of the input after finitely many token advances, whatever the syntax errors,
\* and Interpret the end of the statement list, whatever the runtime failures,
\* without a process fault
C13_RunTerminates ==
    /\ <>(pc = "done")
    /\ [](pc # "fault")
    /\ [](Busy => SomeGuardHolds)
    /\ [][C13_Progress]_vars

\* C13 witness: a run that met a syntax error and a runtime failure has ended
C13_Witness ==
    /\ pc = "done"
    /\ \E i, j \in 1..Len(out) :
           /\ IsParseLine(out[i])
           /\ IsError(out[j]) /\ out[j].msg = "Division by zero"

\* C14: parsing the String() rendering of a statement that ParseProgram returned
\* yields, without a diagnostic, one statement of the same shape
C14_RenderedStatementsParseBack ==
    ParseFinished =>
        \A i \in 1..Len(program) :
            ~IsNilPtr(program[i]) =>
                /\ Shapes(ParseProgram(NodeString(program[i])).statements)
                     = <<Shape(program[i])>>
                /\ ParseProgram(NodeString(program[i])).p.out = <<>>

Comparisons == {<<"=","=">>, <<"!","=">>, <<"<">>, <<">">>, <<"<","=">>, <<">","=">>}

\* the call returned the failure sentinel and wrote one diagnostic
EvalFailed == expr.Result = NilObject /\ Len(out) = 1 /\ IsError(out[1])

\* the call returned an Object of the given kind and wrote nothing
EvalGave(kind) == expr.Result.kind = kind /\ out = <<>>

\* C15: evalBinaryExpression returns a Value or fails with a diagnostic and never
\* faults: two integers give a result for + - * % and the comparisons (0 or 1),
\* / fails on a zero right operand; two texts give a result only for +; every
\* other pairing or operator fails
C15_ValueOrFailureNeverFault ==
    pc = "evaluated" =>
        /\ expr.Result # Fault
        /\ IF expr.Left.kind = "IntObject" /\ expr.Right.kind = "IntObject"
           THEN CASE expr.Operator \in {<<"+">>, <<"-">>, <<"*">>, <<"%">>} -> EvalGave("IntObject")
                  [] expr.Operator \in Comparisons ->
                        EvalGave("IntObject") /\ expr.Result.IntValue \in {0, 1}
                  [] expr.Operator = <<"/">> ->
                        IF expr.Right.IntValue = 0 THEN EvalFailed
                        ELSE EvalGave("IntObject")
                  [] OTHER -> EvalFailed
           ELSE IF expr.Left.kind = "StringObject" /\ expr.Right.kind = "StringObject"
                   /\ expr.Operator = <<"+">>
           THEN EvalGave("StringObject")
           ELSE EvalFailed

\* a stored statement that is a node with its required children, and so are the
\* statements of its blocks
RECURSIVE Whole(_)
AllWhole(statements) == \A i \in 1..Len(statements) : Whole(statements[i])

Whole(s) ==
    /\ ~IsNilPtr(s)
    /\ s # Nil
    /\ CASE s.node = "PrintStatement" -> s.Value # Nil
         [] s.node = "AssignmentStatement" -> s.Name # Nil /\ s.Value # Nil
         [] s.node = "IfStatement" ->
                /\ s.Condition # Nil
                /\ s.Consequence # Nil
                /\ AllWhole(s.Consequence.Statements)
                /\ (s.Alternative # Nil => AllWhole(s.Alternative.Statements))
         [] OTHER -> FALSE

\* C16: no element of the Statements ParseProgram returns, nor of the Statements
\* of any block inside them, is the nil result of a failed statement parser;
\* every stored statement is a node whose required children are present
C16_NoFailureMarkerStored == ParseFinished => AllWhole(program)

=============================================================================
